---- MODULE Spec2Model ----
(***************************************************************************)
(* Model of reaver::thread_pool (include/reaver/thread_pool.h).            *)
(*                                                                         *)
(* Every critical section taken with std::unique_lock is one atomic step,  *)
(* except the worker's wait loop, which holds the lock from the predicate  *)
(* test to _cond.wait (pc = "prewait").  Accesses the code makes without   *)
(* the lock (the destructor's store to _end, the re-read of a queue length *)
(* in the candidate-set push, the worker binding this_queue) are steps of  *)
(* their own.  size_t values are kept as residues modulo 2^64: a negative  *)
(* integer v stands for 2^64 + v.                                          *)
(***************************************************************************)
EXTENDS Integers, Sequences, FiniteSets, TLC

(* ------------------------------ bounds --------------------------------- *)
NumIds == 3        \* distinct std::thread::id values the platform hands out
MaxTasks == 2      \* tasks accepted over one run
MaxSize == 2       \* largest argument given to resize / the constructor
MaxCands == 1      \* longest candidate container given to push(Container)
MaxCalls == 3      \* calls of the public interface over one run
MaxSet == 2        \* longest candidate container in CandidateSpec

Ids == 1..NumIds
Default == 0                      \* std::thread::id{}
Tokens == {Default} \cup Ids
Tasks == 1..MaxTasks
Huge == -1                        \* size_t(-1)

VARIABLES
    _size,             \* std::atomic<std::size_t> _size (residue mod 2^64)
    _threads,          \* keys of std::map _threads
    _affinity_queues,  \* std::unordered_map id -> queue
    _queue,            \* global queue
    _affinities,       \* std::vector of free affinities
    _die_semaphore,    \* permits held by the semaphore
    _end,              \* std::atomic<bool> _end
    pc,                \* position of the thread with each id
    f,                 \* the task a worker dequeued (0: none)
    this_queue,        \* the reference bound at line 283
    crashed,           \* the process died on undefined behaviour
    dtor,              \* progress of ~thread_pool
    cp,                \* progress of push(Container)
    call,              \* the last public call and its outcome
    taskAff,           \* queue each accepted task went to (-1: not accepted)
    runs,              \* number of times each task was run
    issued,            \* tokens returned by allocate_affinity so far
    at_end,            \* tasks queued when ~thread_pool set _end
    discarded,         \* tasks queued when abort cleared the queues
    aborted,           \* abort has been called
    calls,             \* public calls made so far
    returned           \* a worker has given a retirement permit back

vars == <<_size, _threads, _affinity_queues, _queue, _affinities,
          _die_semaphore, _end, pc, f, this_queue, crashed, dtor, cp, call,
          taskAff, runs, issued, at_end, discarded, aborted, calls, returned>>

(* ------------------------- containers, size_t -------------------------- *)
Range(s) == {s[i] : i \in 1..Len(s)}

\* the comparison made non-strict
ULessEq(a, b) == a = b \/ ((a < 0) = (b < 0) /\ a < b) \/ ((a < 0) # (b < 0) /\ b < 0)

\* unsigned comparison of two residues
ULess(a, b) == IF (a < 0) = (b < 0) THEN a < b ELSE b < 0

\* std::unordered_map::operator[]: inserts an empty queue when the key is absent
Lookup(aq, k) == IF k \in DOMAIN aq THEN aq ELSE aq @@ (k :> <<>>)

Erase(aq, k) == [x \in DOMAIN aq \ {k} |-> aq[x]]

IndexOf(s, x) == CHOOSE i \in 1..Len(s) : s[i] = x /\ \A j \in 1..(i - 1) : s[j] # x

RemoveAt(s, i) == [j \in 1..(Len(s) - 1) |-> IF j < i THEN s[j] ELSE s[j + 1]]

Front(s) == SubSeq(s, 1, Len(s) - 1)

QueuedTasks(aq, q) == Range(q) \cup UNION {Range(aq[k]) : k \in DOMAIN aq}

(* ------------------------------ semaphore ------------------------------ *)
\* semaphore::try_wait succeeds when a permit is pending
try_wait(sem) == sem # 0

waited(sem) == IF sem < 0 THEN sem ELSE sem - 1

\* semaphore::notify(n)
notify(sem, n) == IF sem < 0 \/ n < 0 THEN Huge ELSE sem + n

(* ------------------------------ the pool ------------------------------- *)
Pool == [size |-> _size, threads |-> _threads, aq |-> _affinity_queues,
         affinities |-> _affinities, sem |-> _die_semaphore]

Commit(P) ==
    /\ _size' = P.size
    /\ _threads' = P.threads
    /\ _affinity_queues' = P.aq
    /\ _affinities' = P.affinities
    /\ _die_semaphore' = P.sem

_cond == {w \in Ids : pc[w] = "wait"}

\* the lock kept across f()
LockHolders_run == {w \in Ids : pc[w] \in {"prewait", "run"}}

\* the threads inside a std::unique_lock scope between two steps: a worker
\* between the test of line 287 and _cond.wait (every other scope is one step)
LockHolders == {w \in Ids : pc[w] = "prewait"}

LockFree == LockHolders = {}

notify_all(p) == [w \in Ids |-> IF p[w] = "wait" THEN "lock" ELSE p[w]]

\* the positions reachable by waking one waiter (none waiting: no effect)
notify_one(p) ==
    IF \E w \in Ids : p[w] = "wait"
    THEN {[p EXCEPT ![w] = "lock"] : w \in {x \in Ids : p[x] = "wait"}}
    ELSE {p}

NoRef == [dangling |-> FALSE, mem |-> <<>>]

NoCall == [op |-> "none", res |-> "none", ret |-> Default, arg |-> 0]

Idle == [phase |-> "idle", cands |-> <<>>, i |-> 0, current_size |-> 0,
         smallest_size |-> 0, smallest_id |-> Default]

\* _spawn: register the thread id, offer it as a free affinity, create its queue
_spawn(P, id) ==
    [P EXCEPT !.threads = @ \cup {id},
              !.affinities = Append(@, id),
              !.aq = Lookup(@, id),
              !.size = @ + 1]

RECURSIVE SpawnAll(_, _)
SpawnAll(P, ids) ==
    IF ids = <<>> THEN P ELSE SpawnAll(_spawn(P, Head(ids)), Tail(ids))

\* ids a new thread may get: those of no running thread
FreeIds == {i \in Ids : pc[i] = "none"}

IdSeqs(n) == {s \in [1..n -> FreeIds] : \A i, j \in 1..n : i # j => s[i] # s[j]}

\* _affinities.erase(std::find(...)): erasing end() is undefined; the builds
\* either fault or drop the last element (a short vector is left corrupt,
\* which is taken as a fault)
EraseAffinity(affs, id) ==
    IF id \in Range(affs)
    THEN {[crash |-> FALSE, affs |-> RemoveAt(affs, IndexOf(affs, id))]}
    ELSE {[crash |-> TRUE, affs |-> affs]}
         \cup (IF affs # <<>> THEN {[crash |-> FALSE, affs |-> Front(affs)]} ELSE {})

\* the test of line 336 left out
own_queue_empty_always(aq, id) == TRUE

\* line 336: _affinity_queues[this_thread_id].empty()
own_queue_empty(aq, id) == aq[id] = <<>>

\* _try_die: the outcomes of one call by thread id (back: the permit taken
\* was given back at line 338)
_try_die(P, id) ==
    IF ~try_wait(P.sem)
    THEN {[P |-> P, ret |-> FALSE, crash |-> FALSE, back |-> FALSE]}
    ELSE LET P1 == [P EXCEPT !.sem = waited(@), !.aq = Lookup(@, id)] IN
         IF ~own_queue_empty(P1.aq, id)
         THEN {[P |-> [P1 EXCEPT !.sem = notify(@, 1)], ret |-> FALSE,
                crash |-> FALSE, back |-> TRUE]}
         ELSE {IF e.crash \/ id \notin P1.threads
                 THEN [P |-> P1, ret |-> FALSE, crash |-> TRUE, back |-> FALSE]
                 ELSE [P |-> [P1 EXCEPT !.affinities = e.affs,
                                        !.aq = Erase(@, id),
                                        !.threads = @ \ {id},
                                        !.size = @ - 1],
                       ret |-> TRUE, crash |-> FALSE, back |-> FALSE]
               : e \in EraseAffinity(P1.affinities, id)}

(* ------------------------------- Init ---------------------------------- *)
InitPool(n) ==
    SpawnAll([size |-> 0, threads |-> {}, aq |-> <<>>, affinities |-> <<>>, sem |-> 0],
             [i \in 1..n |-> i])

Init ==
    /\ \E n \in 0..(IF MaxSize < NumIds THEN MaxSize ELSE NumIds) :
        /\ _size = InitPool(n).size
        /\ _threads = InitPool(n).threads
        /\ _affinity_queues = InitPool(n).aq
        /\ _affinities = InitPool(n).affinities
        /\ _die_semaphore = InitPool(n).sem
        /\ pc = [w \in Ids |-> IF w <= n THEN "top" ELSE "none"]
    /\ _queue = <<>>
    /\ _end = FALSE
    /\ f = [w \in Ids |-> 0]
    /\ this_queue = [w \in Ids |-> NoRef]
    /\ crashed = FALSE
    /\ dtor = "live"
    /\ cp = Idle
    /\ call = NoCall
    /\ taskAff = [t \in Tasks |-> -1]
    /\ runs = [t \in Tasks |-> 0]
    /\ issued = {}
    /\ at_end = {}
    /\ discarded = {}
    /\ aborted = FALSE
    /\ returned = FALSE
    /\ calls = 0

(* ------------------------------ workers -------------------------------- *)
Running == ~crashed /\ dtor # "destroyed"

Exit(w) ==
    /\ f' = [f EXCEPT ![w] = 0]
    /\ this_queue' = [this_queue EXCEPT ![w] = NoRef]

\* lines 269-283: the loop test, _try_die under the lock, then
\* auto & this_queue = _affinity_queues[get_id()] (which touches only the
\* caller's own key, so it is taken together with the critical section)
_loop_top(w) ==
    /\ Running /\ pc[w] = "top" /\ LockFree
    /\ IF ~(~_end \/ _threads # {})
       THEN /\ pc' = [pc EXCEPT ![w] = "none"]
            /\ UNCHANGED <<_size, _threads, _affinity_queues, _affinities,
                           _die_semaphore, crashed, returned>>
       ELSE \E r \in _try_die(Pool, w) :
               /\ Commit([r.P EXCEPT !.aq = IF r.ret \/ r.crash THEN @ ELSE Lookup(@, w)])
               /\ crashed' = r.crash
               /\ returned' = (returned \/ r.back)
               /\ pc' = [pc EXCEPT ![w] = IF r.crash THEN @
                                          ELSE IF r.ret THEN "none" ELSE "lock"]
    /\ Exit(w)
    /\ UNCHANGED <<_queue, _end, dtor, cp, call, taskAff, runs, issued,
                   at_end, discarded, aborted, calls>>

\* what a read through this_queue can observe: the queue itself, or, once
\* abort has destroyed it, freed memory (a fault, an empty queue, or the
\* elements it held when it was destroyed)
View(w) ==
    IF ~this_queue[w].dangling
    THEN {[crash |-> FALSE, q |-> _affinity_queues[w]]}
    ELSE {[crash |-> TRUE, q |-> <<>>], [crash |-> FALSE, q |-> <<>>],
          [crash |-> FALSE, q |-> this_queue[w].mem]}

\* this_queue.pop() forgotten: the front element stays queued
PopOwn_keep(w) == UNCHANGED <<_affinity_queues, this_queue>>

\* this_queue.pop()
PopOwn(w) ==
    IF this_queue[w].dangling
    THEN /\ this_queue' = [this_queue EXCEPT ![w].mem = Tail(@)]
         /\ UNCHANGED _affinity_queues
    ELSE /\ _affinity_queues' = [_affinity_queues EXCEPT ![w] = Tail(@)]
         /\ UNCHANGED this_queue

\* lines 285-318: the wait loop's test and the dequeue, under the lock
_loop_locked(w) ==
    /\ Running /\ pc[w] = "lock" /\ LockFree
    /\ \E v \in View(w) :
        IF v.crash
        THEN /\ crashed' = TRUE
             /\ UNCHANGED <<_size, _threads, _affinity_queues, _queue, _affinities,
                            _die_semaphore, pc, f, this_queue, returned>>
        ELSE IF ~_end /\ v.q = <<>> /\ _queue = <<>>
        THEN \* lines 289-294
             \E r \in _try_die(Pool, w) :
                /\ Commit(r.P)
                /\ crashed' = r.crash
                /\ returned' = (returned \/ r.back)
                /\ pc' = [pc EXCEPT ![w] = IF r.crash THEN @
                                           ELSE IF r.ret THEN "none" ELSE "prewait"]
                /\ IF r.ret THEN Exit(w) ELSE UNCHANGED <<f, this_queue>>
                /\ UNCHANGED _queue
        ELSE IF _end /\ v.q = <<>> /\ _queue = <<>>
        THEN \* line 299
             /\ pc' = [pc EXCEPT ![w] = "none"]
             /\ Exit(w)
             /\ UNCHANGED <<_size, _threads, _affinity_queues, _queue, _affinities,
                            _die_semaphore, crashed, returned>>
        ELSE IF v.q # <<>>
        THEN \* lines 304-305
             /\ f' = [f EXCEPT ![w] = Head(v.q)]
             /\ PopOwn(w)
             /\ pc' = [pc EXCEPT ![w] = "run"]
             /\ UNCHANGED <<_size, _threads, _queue, _affinities, _die_semaphore,
                            crashed, returned>>
        ELSE IF _queue # <<>>
        THEN \* lines 310-311
             /\ f' = [f EXCEPT ![w] = Head(_queue)]
             /\ _queue' = Tail(_queue)
             /\ pc' = [pc EXCEPT ![w] = "run"]
             /\ UNCHANGED <<_size, _threads, _affinity_queues, _affinities,
                            _die_semaphore, this_queue, crashed, returned>>
        ELSE \* line 316
             /\ pc' = [pc EXCEPT ![w] = "top"]
             /\ UNCHANGED <<_size, _threads, _affinity_queues, _queue, _affinities,
                            _die_semaphore, f, this_queue, crashed, returned>>
    /\ UNCHANGED <<_end, dtor, cp, call, taskAff, runs, issued, at_end,
                   discarded, aborted, calls>>

\* line 294: _cond.wait(lock) releases the lock and blocks
_loop_wait(w) ==
    /\ Running /\ pc[w] = "prewait"
    /\ pc' = [pc EXCEPT ![w] = "wait"]
    /\ UNCHANGED <<_size, _threads, _affinity_queues, _queue, _affinities,
                   _die_semaphore, _end, f, this_queue, crashed, dtor, cp, call,
                   taskAff, runs, issued, at_end, discarded, aborted, returned, calls>>

\* std::condition_variable::wait may return without a notification
spurious_wakeup(w) ==
    /\ Running /\ pc[w] = "wait"
    /\ pc' = [pc EXCEPT ![w] = "lock"]
    /\ UNCHANGED <<_size, _threads, _affinity_queues, _queue, _affinities,
                   _die_semaphore, _end, f, this_queue, crashed, dtor, cp, call,
                   taskAff, runs, issued, at_end, discarded, aborted, returned, calls>>

\* line 320: f(), outside the lock
_loop_run(w) ==
    /\ Running /\ pc[w] = "run"
    /\ runs' = [runs EXCEPT ![f[w]] = @ + 1]
    /\ f' = [f EXCEPT ![w] = 0]
    /\ this_queue' = [this_queue EXCEPT ![w] = NoRef]
    /\ pc' = [pc EXCEPT ![w] = "top"]
    /\ UNCHANGED <<_size, _threads, _affinity_queues, _queue, _affinities,
                   _die_semaphore, _end, crashed, dtor, cp, call, taskAff,
                   issued, at_end, discarded, aborted, returned, calls>>

(* --------------------------- public interface -------------------------- *)
\* a thread that may call into the pool exists: the owner before the
\* destructor starts, and any task being run
CanCall ==
    /\ Running /\ calls < MaxCalls
    /\ (dtor = "live" \/ \E w \in Ids : pc[w] = "run")

\* the number the next accepted task gets (0: the bound on tasks is reached)
NextTask ==
    IF \E t \in Tasks : taskAff[t] = -1
    THEN CHOOSE t \in Tasks : taskAff[t] = -1 /\ \A u \in Tasks : u < t => taskAff[u] # -1
    ELSE 0

Outcome(op, res) == [op |-> op, res |-> res, ret |-> Default, arg |-> 0]

\* the shutdown test left out
closed_never(end) == FALSE

\* lines 135, 163: if (_end) throw thread_pool_closed
closed(end) == end

\* line 168: if (!_affinity_queues.count(affinity)) throw invalid_affinity
known_affinity(aq, affinity) == affinity \in DOMAIN aq

\* the task put at the front of the queue
enqueue_front(q, task) == <<task>> \o q

\* lines 140, 173: queue.emplace(task)
enqueue(q, task) == Append(q, task)

\* lines 132-145: push(f) once the task is built
push_body(op) ==
    IF closed(_end)
    THEN /\ call' = Outcome(op, "thread_pool_closed")
         /\ UNCHANGED <<_queue, _affinity_queues, pc, taskAff>>
    ELSE /\ NextTask # 0
         /\ _queue' = enqueue(_queue, NextTask)
         /\ taskAff' = [taskAff EXCEPT ![NextTask] = Default]
         /\ pc' \in notify_one(pc)
         /\ call' = Outcome(op, "ok")
         /\ UNCHANGED _affinity_queues

\* lines 151-178: push(affinity, f)
push_affinity_body(op, affinity) ==
    IF affinity = Default
    THEN push_body(op)
    ELSE IF closed(_end)
    THEN /\ call' = Outcome(op, "thread_pool_closed")
         /\ UNCHANGED <<_queue, _affinity_queues, pc, taskAff>>
    ELSE IF ~known_affinity(_affinity_queues, affinity)
    THEN /\ call' = Outcome(op, "invalid_affinity")
         /\ UNCHANGED <<_queue, _affinity_queues, pc, taskAff>>
    ELSE /\ NextTask # 0
         /\ _affinity_queues' = [_affinity_queues EXCEPT ![affinity] = enqueue(@, NextTask)]
         /\ taskAff' = [taskAff EXCEPT ![NextTask] = affinity]
         /\ pc' = notify_all(pc)
         /\ call' = Outcome(op, "ok")
         /\ UNCHANGED _queue

push ==
    /\ CanCall /\ LockFree
    /\ push_body("push")
    /\ calls' = calls + 1
    /\ UNCHANGED <<_size, _threads, _affinities, _die_semaphore, _end, f,
                   this_queue, crashed, dtor, cp, runs, issued, at_end,
                   discarded, aborted, returned>>

push_affinity(affinity) ==
    /\ CanCall /\ LockFree
    /\ push_affinity_body("push_affinity", affinity)
    /\ calls' = calls + 1
    /\ UNCHANGED <<_size, _threads, _affinities, _die_semaphore, _end, f,
                   this_queue, crashed, dtor, cp, runs, issued, at_end,
                   discarded, aborted, returned>>

\* lines 185-188: push(affinities, f) starts its loop
CandSeqs == UNION {[1..n -> Tokens] : n \in 0..MaxCands}

push_container_begin(affinities) ==
    /\ CanCall /\ cp.phase = "idle"
    /\ cp' = [phase |-> IF affinities = <<>> THEN "forward" ELSE "read",
              cands |-> affinities, i |-> 1, current_size |-> 0,
              smallest_size |-> Huge, smallest_id |-> Default]
    /\ calls' = calls + 1
    /\ UNCHANGED <<_size, _threads, _affinity_queues, _queue, _affinities,
                   _die_semaphore, _end, pc, f, this_queue, crashed, dtor, call,
                   taskAff, runs, issued, at_end, discarded, aborted, returned>>

\* lines 192-195: current_size = _affinity_queues[aff].size(), under the lock
push_container_read ==
    /\ Running /\ cp.phase = "read" /\ LockFree
    /\ LET aff == cp.cands[cp.i]
           aq == Lookup(_affinity_queues, aff)
       IN /\ _affinity_queues' = aq
          /\ cp' = [cp EXCEPT !.current_size = Len(aq[aff]), !.phase = "compare"]
    /\ UNCHANGED <<_size, _threads, _queue, _affinities, _die_semaphore, _end,
                   pc, f, this_queue, crashed, dtor, call, taskAff, runs, issued,
                   at_end, discarded, aborted, returned, calls>>

\* lines 197-201: the comparison and the second read, without the lock
push_container_compare ==
    /\ Running /\ cp.phase = "compare"
    /\ LET aff == cp.cands[cp.i]
           aq == Lookup(_affinity_queues, aff)
           next == IF cp.i = Len(cp.cands) THEN "forward" ELSE "read"
       IN IF ULess(cp.current_size, cp.smallest_size)
          THEN /\ _affinity_queues' = aq
               /\ cp' = [cp EXCEPT !.smallest_size = Len(aq[aff]), !.smallest_id = aff,
                                   !.i = @ + 1, !.phase = next]
          ELSE /\ cp' = [cp EXCEPT !.i = @ + 1, !.phase = next]
               /\ UNCHANGED _affinity_queues
    /\ UNCHANGED <<_size, _threads, _queue, _affinities, _die_semaphore, _end,
                   pc, f, this_queue, crashed, dtor, call, taskAff, runs, issued,
                   at_end, discarded, aborted, returned, calls>>

\* lines 204-209: forward to push(f) or push(smallest_id, f); cp.cands keeps
\* the argument of the call that returned
push_container_forward ==
    /\ Running /\ cp.phase = "forward" /\ LockFree
    /\ push_affinity_body("push_container", cp.smallest_id)
    /\ cp' = [Idle EXCEPT !.cands = cp.cands]
    /\ UNCHANGED <<_size, _threads, _affinities, _die_semaphore, _end, f,
                   this_queue, crashed, dtor, runs, issued, at_end, discarded, aborted, returned,
                   calls>>

\* _size - new_size, in size_t
USub(a, b) == IF a < 0 THEN Huge ELSE a - b

started(p, ids) == [w \in Ids |-> IF w \in Range(ids) THEN "top" ELSE p[w]]

\* the test of line 221 left out
same_size_never(new_size, size) == FALSE

\* line 221: if (new_size == _size) return
same_size(new_size, size) == new_size = size

\* lines 217-239 (call.res records the branch taken, call.arg the argument)
resize(new_size) ==
    /\ CanCall /\ LockFree
    /\ IF same_size(new_size, _size)
       THEN /\ UNCHANGED <<_size, _threads, _affinity_queues, _affinities,
                           _die_semaphore, pc>>
            /\ call' = [Outcome("resize", "same") EXCEPT !.arg = new_size]
       ELSE IF ULess(_size, new_size)
       THEN /\ \E ids \in IdSeqs(new_size - _size) :
                  /\ Commit(SpawnAll(Pool, ids))
                  /\ pc' = started(pc, ids)
            /\ call' = [Outcome("resize", "grown") EXCEPT !.arg = new_size]
       ELSE /\ Commit([Pool EXCEPT !.sem = notify(@, USub(_size, new_size)),
                                   !.size = new_size])
            /\ pc' = notify_all(pc)
            /\ call' = [Outcome("resize", "shrunk") EXCEPT !.arg = new_size]
    /\ calls' = calls + 1
    /\ UNCHANGED <<_queue, _end, f, this_queue, crashed, dtor, cp, taskAff,
                   runs, issued, at_end, discarded, aborted, returned>>

\* lines 241-258
allocate_affinity(insert) ==
    /\ CanCall /\ LockFree
    /\ LET spawning == _affinities = <<>> /\ insert IN
       /\ \E id \in (IF spawning THEN FreeIds ELSE {Default}) :
           LET P1 == IF spawning THEN _spawn(Pool, id) ELSE Pool IN
           /\ IF Len(P1.affinities) # 0
              THEN /\ Commit([P1 EXCEPT !.affinities = Front(@)])
                   /\ call' = [op |-> "allocate_affinity", res |-> "ok",
                               ret |-> P1.affinities[Len(P1.affinities)], arg |-> 0]
                   /\ issued' = issued \cup {P1.affinities[Len(P1.affinities)]}
              ELSE /\ Commit(P1)
                   /\ call' = Outcome("allocate_affinity", "free_affinities_exhausted")
                   /\ UNCHANGED issued
           /\ pc' = IF spawning THEN [pc EXCEPT ![id] = "top"] ELSE pc
    /\ calls' = calls + 1
    /\ UNCHANGED <<_queue, _end, f, this_queue, crashed, dtor, cp, taskAff,
                   runs, at_end, discarded, aborted, returned>>

\* the workers whose this_queue reference is live
Bound(w) == pc[w] \in {"lock", "prewait", "wait"}

\* lines 101-110 (the joins of lines 112-122 change no state)
abort ==
    /\ CanCall /\ LockFree
    /\ discarded' = discarded \cup QueuedTasks(_affinity_queues, _queue)
    /\ aborted' = TRUE
    /\ _queue' = <<>>
    /\ _affinity_queues' = <<>>
    /\ _end' = TRUE
    /\ pc' = notify_all(pc)
    /\ this_queue' = [w \in Ids |->
                        IF Bound(w) /\ ~this_queue[w].dangling
                        THEN [dangling |-> TRUE, mem |-> _affinity_queues[w]]
                        ELSE this_queue[w]]
    /\ call' = Outcome("abort", "ok")
    /\ calls' = calls + 1
    /\ UNCHANGED <<_size, _threads, _affinities, _die_semaphore, f, crashed,
                   dtor, cp, taskAff, runs, issued, at_end, returned>>

\* line 82: _end = true, without the lock
destructor_end ==
    /\ Running /\ dtor = "live"
    /\ _end' = TRUE
    /\ at_end' = QueuedTasks(_affinity_queues, _queue)
    /\ dtor' = "end_set"
    /\ UNCHANGED <<_size, _threads, _affinity_queues, _queue, _affinities,
                   _die_semaphore, pc, f, this_queue, crashed, cp, call,
                   taskAff, runs, issued, discarded, aborted, returned, calls>>

\* line 83: _cond.notify_all()
destructor_notify ==
    /\ Running /\ dtor = "end_set"
    /\ pc' = notify_all(pc)
    /\ dtor' = "joining"
    /\ UNCHANGED <<_size, _threads, _affinity_queues, _queue, _affinities,
                   _die_semaphore, _end, f, this_queue, crashed, cp, call,
                   taskAff, runs, issued, at_end, discarded, aborted, returned, calls>>

\* lines 85-98: the joins return once every worker thread has ended
destructor_join ==
    /\ Running /\ dtor = "joining"
    /\ \A w \in Ids : pc[w] = "none"
    /\ dtor' = "destroyed"
    /\ UNCHANGED <<_size, _threads, _affinity_queues, _queue, _affinities,
                   _die_semaphore, _end, pc, f, this_queue, crashed, cp, call,
                   taskAff, runs, issued, at_end, discarded, aborted, returned, calls>>

(* --------------------------- specification ----------------------------- *)
Worker(w) ==
    \/ _loop_top(w)
    \/ _loop_locked(w)
    \/ _loop_wait(w)
    \/ _loop_run(w)

Next ==
    \/ \E w \in Ids : Worker(w)
    \/ \E w \in Ids : spurious_wakeup(w)
    \/ push
    \/ \E a \in Tokens : push_affinity(a)
    \/ \E c \in CandSeqs : push_container_begin(c)
    \/ push_container_read
    \/ push_container_compare
    \/ push_container_forward
    \/ \E n \in 0..(IF MaxSize < NumIds THEN MaxSize ELSE NumIds) : resize(n)
    \/ \E b \in BOOLEAN : allocate_affinity(b)
    \/ abort
    \/ destructor_end
    \/ destructor_notify
    \/ destructor_join

Spec == Init /\ [][Next]_vars

\* every thread that can take a step is eventually scheduled, and a thread
\* that needs the lock gets it: the worker loops and the destructor's thread
FairSpec ==
    /\ Spec
    /\ \A w \in Ids : SF_vars(Worker(w))
    /\ WF_vars(destructor_notify)
    /\ WF_vars(destructor_join)

\* a worker that holds the lock keeps executing until it releases it
LockFairSpec == Spec /\ \A w \in Ids : WF_vars(_loop_wait(w))

(* ------------- the candidate-set push with nothing concurrent ---------- *)
\* the tasks of 1..k accepted for token a, in the order they were pushed
Pushed(k, dest, a) == SelectSeq([t \in 1..k |-> t], LAMBDA t : dest[t] = a)

\* thread_pool pool(n) followed by k pushes, before any worker is scheduled
CandidateInit ==
    /\ \E n \in 0..(IF MaxSize < NumIds THEN MaxSize ELSE NumIds) :
       \E k \in 0..(MaxTasks - 1) :
       \E dest \in [1..k -> {Default} \cup 1..n] :
        /\ _size = InitPool(n).size
        /\ _threads = InitPool(n).threads
        /\ _affinity_queues = [w \in 1..n |-> Pushed(k, dest, w)]
        /\ _affinities = InitPool(n).affinities
        /\ _die_semaphore = InitPool(n).sem
        /\ pc = [w \in Ids |-> IF w <= n THEN "top" ELSE "none"]
        /\ _queue = Pushed(k, dest, Default)
        /\ taskAff = [t \in Tasks |-> IF t <= k THEN dest[t] ELSE -1]
        /\ calls = k
        /\ call = IF k = 0 THEN NoCall ELSE Outcome("push_affinity", "ok")
    /\ _end = FALSE
    /\ f = [w \in Ids |-> 0]
    /\ this_queue = [w \in Ids |-> NoRef]
    /\ crashed = FALSE
    /\ dtor = "live"
    /\ cp = Idle
    /\ runs = [t \in Tasks |-> 0]
    /\ issued = {}
    /\ at_end = {}
    /\ discarded = {}
    /\ aborted = FALSE
    /\ returned = FALSE

CandSets == UNION {[1..n -> Tokens] : n \in 0..MaxSet}

CandidateNext ==
    \/ \E c \in CandSets : push_container_begin(c)
    \/ push_container_read
    \/ push_container_compare
    \/ push_container_forward

CandidateSpec == CandidateInit /\ [][CandidateNext]_vars

(* ------------------------------ properties ----------------------------- *)
Occurrences(t) ==
    Cardinality({i \in 1..Len(_queue) : _queue[i] = t})
    + Cardinality({x \in (DOMAIN _affinity_queues) \X (1..MaxTasks) :
                      x[2] <= Len(_affinity_queues[x[1]])
                      /\ _affinity_queues[x[1]][x[2]] = t})

Holders(t) == {w \in Ids : f[w] = t}

Started(t) == runs[t] > 0 \/ Holders(t) # {}

Accepted(t) == taskAff[t] # -1

\* C1: a task is in at most one place (queued once, held by one worker, or
\* run once): it is dequeued by at most one worker and run at most one time.
C1_NoTaskRunTwice ==
    \A t \in Tasks : Occurrences(t) + Cardinality(Holders(t)) + runs[t] <= 1

C1_Witness ==
    \E t \in Tasks : runs[t] = 1 /\ Cardinality(_threads) >= 2

\* C3: of two tasks accepted for the same non-default affinity token, the
\* later one is not dequeued before the earlier one has finished running.
C3_AffinityFifo ==
    \A a, b \in Tasks :
        (a < b /\ Accepted(a) /\ taskAff[a] # Default /\ taskAff[a] = taskAff[b]
         /\ Started(b)) => runs[a] > 0

C3_Witness ==
    \E a, b \in Tasks :
        /\ a < b /\ taskAff[a] # Default /\ taskAff[a] = taskAff[b]
        /\ runs[a] > 0 /\ runs[b] > 0

PushReturns ==
    \/ push
    \/ \E a \in Tokens : push_affinity(a)
    \/ push_container_forward

PushStep ==
    \/ PushReturns
    \/ \E c \in CandSeqs : push_container_begin(c)
    \/ push_container_read
    \/ push_container_compare

\* C4: with the shutdown flag set, no step of any push overload adds a task
\* to a queue, and every push that returns fails with thread_pool_closed.
C4_ClosedPoolRejects ==
    [][(_end /\ PushStep) =>
         /\ taskAff' = taskAff
         /\ QueuedTasks(_affinity_queues', _queue') \subseteq QueuedTasks(_affinity_queues, _queue)
         /\ (PushReturns => call'.res = "thread_pool_closed")]_vars

C4_Witness ==
    /\ _end /\ ~aborted
    /\ call.op = "push_container" /\ call.res = "thread_pool_closed"

AllEnded(p) == \A w \in Ids : p[w] = "none"

\* C5: when the last worker terminates after the destructor set the shutdown
\* flag, every task that was queued at that moment has been run.
C5_DrainRunsQueued ==
    [][(dtor # "live" /\ ~aborted /\ ~crashed' /\ ~AllEnded(pc) /\ AllEnded(pc'))
         => \A t \in at_end : runs'[t] > 0]_vars

\* C7: a task that abort removed from a queue is never dequeued or run.
C7_AbortDiscards ==
    \A t \in discarded : ~Started(t)

\* C8: before shutdown, push(affinity, f) with a non-default token naming no
\* registered worker fails with invalid_affinity and changes no queue.
C8_UnknownAffinityRejected ==
    [][\A a \in Ids :
         (push_affinity(a) /\ ~_end /\ a \notin _threads)
            => /\ call'.res = "invalid_affinity"
               /\ UNCHANGED <<_queue, _affinity_queues, _threads>>]_vars

\* C9: a successful allocate_affinity never returns a token that an earlier
\* call has returned.
C9_TokensDistinct ==
    [][\A b \in BOOLEAN :
         (allocate_affinity(b) /\ call'.res = "ok") => call'.ret \notin issued]_vars

NewThreads == {w \in Ids : pc[w] = "none" /\ pc'[w] # "none"}

\* C10: with an empty free list, allocate_affinity(false) fails with
\* free_affinities_exhausted, starts no thread and keeps size(); and
\* allocate_affinity(true) starts one thread, returns its token and makes
\* size() one larger.
C10_EmptyFreeList ==
    [][(_affinities = <<>>) =>
         /\ allocate_affinity(FALSE) =>
               /\ call'.res = "free_affinities_exhausted"
               /\ NewThreads = {}
               /\ _size' = _size
         /\ allocate_affinity(TRUE) =>
               /\ call'.res = "ok"
               /\ NewThreads = {call'.ret}
               /\ _size # Huge /\ _size' = _size + 1]_vars

\* C2: a task accepted by the global push while a worker is registered is
\* eventually run, unless abort is called or the process has faulted.
C2_GlobalTaskRuns ==
    \A t \in Tasks :
        (taskAff[t] = Default /\ _threads # {})
            ~> (runs[t] > 0 \/ aborted \/ crashed)

\* C6: once the destructor has set the flag and notified the waiters, every
\* worker thread ends (unless the process has faulted).
C6_DrainTerminates ==
    (dtor = "joining") ~> (AllEnded(pc) \/ crashed)

ResizeStep == \E n \in 0..MaxSize : resize(n)

AllocateStep == \E b \in BOOLEAN : allocate_affinity(b)

\* C11: resize(n) leaves size() equal to n, and no step other than a resize
\* or an allocate_affinity call (in particular no worker retiring after a
\* shrink) changes the value size() reports.
C11_SizeStable ==
    [][/\ \A n \in 0..MaxSize : resize(n) => _size' = n
       /\ (~ResizeStep /\ ~AllocateStep) => _size' = _size]_vars

\* C12: resize(n) with size() = n spawns no worker, issues no permit, wakes
\* nobody and leaves the registry, the queues, the free list and size() as
\* they were.
C12_ResizeSameSize ==
    [][\A n \in 0..MaxSize :
         (resize(n) /\ _size = n) =>
            /\ NewThreads = {}
            /\ UNCHANGED <<_size, _threads, _affinity_queues, _queue,
                           _affinities, _die_semaphore, pc>>]_vars

C12_Witness ==
    /\ call.op = "resize" /\ call.res = "same"
    /\ _size = 2 /\ Cardinality(_threads) = 2

\* C14: once resize(n) has returned and no further call is made on the pool
\* (and it is neither shut down nor faulted), the number of registered workers
\* eventually equals n.
C14_WorkersConverge ==
    \A n \in 0..MaxSize :
        (call.op = "resize" /\ call.arg = n)
            ~> \/ Cardinality(_threads) = n
               \/ call.op # "resize" \/ call.arg # n
               \/ dtor # "live" \/ aborted \/ crashed

Registered(w) == w \in _threads /\ w \in DOMAIN _affinity_queues

\* C15: a step of a registered worker whose own queue is not empty leaves it
\* registered, leaves the permit count as it was (a permit taken is given
\* back in the same critical section) and loses none of its queued tasks.
C15_NoRetireWithWork ==
    [][\A w \in Ids :
         (Worker(w) /\ Registered(w) /\ _affinity_queues[w] # <<>>) =>
            /\ w \in _threads'
            /\ _die_semaphore' = _die_semaphore
            /\ w \in DOMAIN _affinity_queues'
            /\ \/ _affinity_queues'[w] = _affinity_queues[w]
               \/ /\ _affinity_queues'[w] = Tail(_affinity_queues[w])
                  /\ f'[w] = Head(_affinity_queues[w])]_vars

\* a worker gave a permit back, then ran the task it had queued, and the
\* permit is still pending
C15_Witness ==
    /\ returned /\ _die_semaphore = 1
    /\ \E w \in _threads : \E t \in Tasks : taskAff[t] = w /\ runs[t] = 1

\* worker w retires: it reaches _try_die at line 274 with a permit pending
\* and its own queue empty, or its step removes its registry entry
Retires(w) ==
    /\ Worker(w)
    /\ \/ /\ pc[w] = "top" /\ Registered(w)
          /\ try_wait(_die_semaphore) /\ _affinity_queues[w] = <<>>
       \/ w \in _threads /\ w \notin _threads'

\* C16: a retiring worker removes its own id from the free list when it is
\* there and leaves the list as it is when it is not (the id was handed
\* out), removes its own queue and registry entry, and leaves the entries of
\* every other worker unchanged.
C16_RetireRemovesOwnState ==
    [][\A w \in Ids :
         Retires(w) =>
            /\ ~crashed'
            /\ _affinities' = SelectSeq(_affinities, LAMBDA x : x # w)
            /\ _affinity_queues' = Erase(_affinity_queues, w)
            /\ _threads' = _threads \ {w}]_vars

C18_EveryWorkerHasQueue ==
    LockFree => \A w \in _threads : w \in DOMAIN _affinity_queues

\* C19: whenever the lock is free, the value size() reports equals the
\* number of entries of the registry.
C19_SizeIsRegistryCount ==
    LockFree => _size = Cardinality(_threads)

ContainerStep ==
    \/ push_container_read
    \/ push_container_compare
    \/ push_container_forward

\* C20: given a container holding a non-default token that names no
\* registered worker, no step of the candidate-set push adds a mapping entry
\* for a token that is not a registered worker, and when the token selected
\* is such a token the call fails with invalid_affinity and enqueues nothing.
C20_CandidatesNeverUnserved ==
    [][(ContainerStep /\ Range(cp.cands) \ (_threads \cup {Default}) # {}) =>
         /\ (DOMAIN _affinity_queues') \ (DOMAIN _affinity_queues) \subseteq _threads
         /\ (push_container_forward /\ ~_end
             /\ cp.smallest_id \notin _threads \cup {Default}) =>
               /\ call'.res = "invalid_affinity"
               /\ UNCHANGED <<_queue, _affinity_queues, taskAff>>]_vars

\* C21: until shutdown begins, every token allocate_affinity has returned
\* names a registered worker that has a queue, so a push with it is accepted.
C21_IssuedTokensStayValid ==
    ~_end => \A a \in issued : a \in _threads /\ known_affinity(_affinity_queues, a)

\* C22: _size is never decremented below zero (each decrement by a worker
\* happens with _size at least 1, and the residue never stands for a wrapped
\* value), and a shrinking resize issues at most as many permits as there
\* are registered workers.
C22_SizeNeverWraps ==
    [][/\ _size' >= 0
       /\ \A w \in Ids : (Worker(w) /\ _size' # _size) => _size >= 1
       /\ \A n \in 0..MaxSize :
            (resize(n) /\ call'.res = "shrunk") =>
               /\ USub(_size, n) >= 0
               /\ USub(_size, n) <= Cardinality(_threads)]_vars

\* the first index of c whose queue is the shortest among the queues of c
FirstMin(c) ==
    CHOOSE i \in 1..Len(c) :
        /\ \A j \in 1..Len(c) : Len(_affinity_queues[c[i]]) <= Len(_affinity_queues[c[j]])
        /\ \A j \in 1..(i - 1) : Len(_affinity_queues[c[i]]) < Len(_affinity_queues[c[j]])

\* C13: with nothing else touching the queues, the candidate-set push given
\* registered tokens appends the task to the queue of the first candidate of
\* minimal queue length and to no other queue; given an empty container or
\* only default tokens it appends the task to the global queue.
C13_FirstShortestCandidate ==
    [][(push_container_forward /\ ~_end) =>
         LET c == cp.cands IN
         /\ (c # <<>> /\ Range(c) \subseteq _threads) =>
               /\ call'.res = "ok"
               /\ _queue' = _queue
               /\ _affinity_queues' =
                     [_affinity_queues EXCEPT ![c[FirstMin(c)]] = Append(@, NextTask)]
         /\ (Range(c) \subseteq {Default}) =>
               /\ call'.res = "ok"
               /\ _queue' = Append(_queue, NextTask)
               /\ \A w \in _threads : _affinity_queues'[w] = _affinity_queues[w]]_vars

\* the second of two candidates had the shorter queue and got the task
C13_Witness ==
    /\ cp.phase = "idle" /\ cp.cands = <<1, 2>>
    /\ call.op = "push_container" /\ call.res = "ok"
    /\ Len(_affinity_queues[1]) = 1 /\ Len(_affinity_queues[2]) = 1
    /\ taskAff[1] = 1 /\ taskAff[2] = 2
====
